---- MODULE Spec2Model ----
(***************************************************************************)
(* A model of pybkt (bktree.py): the Burkhard-Keller tree BKTree with its  *)
(* operations add_word, query, find, save_to_file and load_from_file, and  *)
(* the levenshtein distance function the module ships.                     *)
(*                                                                         *)
(* Python values are modelled as tagged records (field py), JSON documents *)
(* as tagged records (field js). A Python str is the sequence of its code  *)
(* points, so that str(), int() and string comparison are computed.        *)
(***************************************************************************)
EXTENDS Integers, Sequences, FiniteSets, TLC

VARIABLES
    distance_func,  \* BKTree.distance_func: the metric passed to __init__
    tree,           \* BKTree.tree: None or the nested (word, {key: child}) value
    file,           \* the content of the file save_to_file / load_from_file use
    last,           \* the last BKTree call and what it returned or raised
    source,         \* levenshtein: first argument
    target,         \* levenshtein: second argument
    distance        \* levenshtein: the value returned, NotCalled before the call

vars == <<distance_func, tree, file, last, source, target, distance>>

(***************************************************************************)
(* Bounds of the model.                                                    *)
(***************************************************************************)
\* longest string given to levenshtein
MaxLen == 5
\* longest middle string of a triangle of levenshtein distances
MidLen == 3
\* most nodes a tree grows to
MaxNodes == 3
\* largest distance a drawn metric gives to two words
MaxDist == 3
\* largest query radius n
MaxN == 2

\* code points of the letters a, b, c
Alphabet == {97, 98, 99}

Min(a, b) == IF a <= b THEN a ELSE b

\* all strings over Alphabet of length at most n
StringsUpTo(n) == UNION {[1..k -> Alphabet] : k \in 0..n}

LevWords == StringsUpTo(MaxLen)
MidWords == StringsUpTo(MidLen)

(***************************************************************************)
(* levenshtein (bktree.py 145-187). The rows are numpy arrays: each        *)
(* assignment to current_row[1:] evaluates its whole right-hand side on    *)
(* the row as it was before the assignment. Rows are indexed from 1, so    *)
(* row[j + 1] is numpy's row[j].                                           *)
(***************************************************************************)
\* line 171: current_row = previous_row + 1
InsertionRow(previous_row) ==
    [j \in DOMAIN previous_row |-> previous_row[j] + 1]

\* lines 176-178: current_row[1:] = minimum(current_row[1:], previous_row[:-1] + (target != s))
SubstitutionRow(current_row, previous_row, tgt, s) ==
    [j \in DOMAIN current_row |->
        IF j = 1 THEN current_row[1]
        ELSE Min(current_row[j],
                 previous_row[j - 1] + (IF tgt[j - 1] # s THEN 1 ELSE 0))]

\* lines 181-183: current_row[1:] = minimum(current_row[1:], current_row[0:-1] + 1)
DeletionRow(current_row) ==
    [j \in DOMAIN current_row |->
        IF j = 1 THEN current_row[1]
        ELSE Min(current_row[j], current_row[j - 1] + 1)]

\* lines 169-185: the loop over the characters of source, from the i-th on
RECURSIVE LevRows(_, _, _, _)
LevRows(previous_row, src, tgt, i) ==
    IF i > Len(src) THEN previous_row
    ELSE LevRows(DeletionRow(SubstitutionRow(InsertionRow(previous_row),
                                             previous_row, tgt, src[i])),
                 src, tgt, i + 1)

\* lines 156-187, once len(source) >= len(target)
LevOrdered(src, tgt) ==
    IF Len(tgt) = 0 THEN Len(src)
    ELSE LET previous_row == [j \in 1..(Len(tgt) + 1) |-> j - 1]
         IN  LevRows(previous_row, src, tgt, 1)[Len(tgt) + 1]

\* lines 153-154: the swap that makes the longer string the outer operand
levenshtein(src, tgt) ==
    IF Len(src) < Len(tgt) THEN LevOrdered(tgt, src) ELSE LevOrdered(src, tgt)

(***************************************************************************)
(* The edit distance itself: the full recurrence                           *)
(*   D[i][0] = i, D[0][j] = j,                                             *)
(*   D[i][j] = min(D[i-1][j] + 1, D[i][j-1] + 1, D[i-1][j-1] + (a_i # b_j))*)
(* computed row by row, each cell from its left neighbour in the same row. *)
(***************************************************************************)
RECURSIVE EditCells(_, _, _, _, _)
EditCells(row, previous_row, b, s, j) ==
    IF j > Len(b) + 1 THEN row
    ELSE EditCells(
            Append(row, Min(Min(previous_row[j] + 1, row[j - 1] + 1),
                            previous_row[j - 1] + (IF b[j - 1] # s THEN 1 ELSE 0))),
            previous_row, b, s, j + 1)

RECURSIVE EditRows(_, _, _, _)
EditRows(previous_row, a, b, i) ==
    IF i > Len(a) THEN previous_row
    ELSE EditRows(EditCells(<<previous_row[1] + 1>>, previous_row, b, a[i], 2),
                  a, b, i + 1)

EditDistance(a, b) ==
    EditRows([j \in 1..(Len(b) + 1) |-> j - 1], a, b, 1)[Len(b) + 1]

(***************************************************************************)
(* Python values. A str is [py |-> "str", s |-> its code points]; a tuple, *)
(* a list and a dict carry their items in order (a dict keeps insertion    *)
(* order: its items are <<key, value>> pairs); a raised exception is a     *)
(* value of its own, so that a call's outcome is one value.                *)
(***************************************************************************)
PyNone == [py |-> "None"]
PyStr(s) == [py |-> "str", s |-> s]
PyInt(i) == [py |-> "int", i |-> i]
PyTuple(items) == [py |-> "tuple", items |-> items]
PyList(items) == [py |-> "list", items |-> items]
PyDict(items) == [py |-> "dict", items |-> items]
Raised(type) == [py |-> "exception", type |-> type]

\* str(i) of an int: its decimal digits, "-" first when negative
RECURSIVE Digits(_)
Digits(i) == IF i < 10 THEN <<48 + i>> ELSE Digits(i \div 10) \o <<48 + (i % 10)>>

Str(i) == IF i < 0 THEN <<45>> \o Digits(0 - i) ELSE Digits(i)

\* int(s) of a str: s is an optional "-" and decimal digits
IsNumeral(s) ==
    LET body == IF Len(s) > 0 /\ s[1] = 45 THEN Tail(s) ELSE s
    IN  Len(body) > 0 /\ \A k \in 1..Len(body) : body[k] \in 48..57

RECURSIVE DigitsValue(_)
DigitsValue(s) ==
    IF Len(s) = 0 THEN 0
    ELSE 10 * DigitsValue(SubSeq(s, 1, Len(s) - 1)) + (s[Len(s)] - 48)

IntOf(s) == IF s[1] = 45 THEN 0 - DigitsValue(Tail(s)) ELSE DigitsValue(s)

\* int(key) of a dict key: an int is its own value
IntOfKey(key) == IF key.py = "int" THEN key.i ELSE IntOf(key.s)

\* a < b for two str: Python compares them code point by code point
StrLess(a, b) ==
    \E i \in 1..(Min(Len(a), Len(b)) + 1) :
        /\ \A j \in 1..(i - 1) : a[j] = b[j]
        /\ \/ i > Len(a) /\ i <= Len(b)
           \/ i <= Len(a) /\ i <= Len(b) /\ a[i] < b[i]

\* dict.get(key): the value stored under key, None when there is none
DictGet(d, key) ==
    IF \E k \in 1..Len(d.items) : d.items[k][1] = key
    THEN d.items[CHOOSE k \in 1..Len(d.items) : d.items[k][1] = key][2]
    ELSE PyNone

\* d[key] = value: in place when key is there, as the last item otherwise
DictSet(d, key, value) ==
    IF \E k \in 1..Len(d.items) : d.items[k][1] = key
    THEN PyDict([k \in 1..Len(d.items) |->
                    IF d.items[k][1] = key THEN <<key, value>> ELSE d.items[k]])
    ELSE PyDict(Append(d.items, <<key, value>>))

\* "parent, children = node" succeeds on a tuple or list of two items. The
\* values the model reaches hold no str and no dict of length two in a node's
\* place, so every other value fails to unpack.
Unpacks(node) == node.py \in {"tuple", "list"} /\ Len(node.items) = 2

\* the exception of a failed unpack: None and int are not iterable
UnpackError(node) ==
    IF node.py \in {"None", "int"} THEN Raised("TypeError") ELSE Raised("ValueError")

(***************************************************************************)
(* The words of the model and the distance functions given to BKTree.      *)
(***************************************************************************)
\* "a", "ab", "b"
Words == {<<97>>, <<97, 98>>, <<98>>}

\* the axioms of a metric, which the class asks of distance_func (docstring,
\* lines 20-21)
IsMetric(f) ==
    \A a \in Words, b \in Words :
        /\ f[<<a, b>>] >= 0
        /\ f[<<a, b>>] = 0 <=> a = b
        /\ f[<<a, b>>] = f[<<b, a>>]
        /\ \A c \in Words : f[<<a, c>>] <= f[<<a, b>>] + f[<<b, c>>]

WordPairs == {{a, b} : a \in Words, b \in Words} \ {{a} : a \in Words}

SymmetricTables ==
    {[p \in Words \X Words |-> IF p[1] = p[2] THEN 0 ELSE g[{p[1], p[2]}]] :
        g \in [WordPairs -> 0..MaxDist]}

\* levenshtein as the distance function, on the words of the model
LevTable == [p \in Words \X Words |-> levenshtein(p[1], p[2])]

DistanceFuncs == {f \in SymmetricTables : IsMetric(f)} \cup {LevTable}

(***************************************************************************)
(* BKTree.add_word (lines 37-57).                                          *)
(***************************************************************************)
NewNode(word) == PyTuple(<<PyStr(word), PyDict(<<>>)>>)

\* add_word, were it to leave the word out when the key is taken
Walk_DropOnCollision(f, node, word) ==
    IF ~Unpacks(node) THEN UnpackError(node)
    ELSE LET parent == node.items[1]
             children == node.items[2]
             key == PyStr(Str(f[<<word, parent.s>>]))
             child == DictGet(children, key)
         IN  IF child.py = "None"
             THEN [node EXCEPT !.items[2] = DictSet(children, key, NewNode(word))]
             ELSE node

\* add_word, were it to put the word in the place of the child that has the key
Walk_OverwriteOnCollision(f, node, word) ==
    IF ~Unpacks(node) THEN UnpackError(node)
    ELSE LET parent == node.items[1]
             children == node.items[2]
             key == PyStr(Str(f[<<word, parent.s>>]))
         IN  [node EXCEPT !.items[2] = DictSet(children, key, NewNode(word))]

\* lines 50-57: the walk from node down to the free key. The only mutation
\* is the assignment of line 56, so a raise on the way leaves the tree as
\* it was; the value is the subtree after the call, or the exception.
RECURSIVE Walk(_, _, _)
Walk(f, node, word) ==
    IF ~Unpacks(node) THEN UnpackError(node)
    ELSE LET parent == node.items[1]
             children == node.items[2]
             key == PyStr(Str(f[<<word, parent.s>>]))
             child == DictGet(children, key)
         IN  IF child.py = "None"
             THEN [node EXCEPT !.items[2] = DictSet(children, key, NewNode(word))]
             ELSE LET below == Walk(f, child, word)
                  IN  IF below.py = "exception" THEN below
                      ELSE [node EXCEPT !.items[2] = DictSet(children, key, below)]

\* lines 42-45, then the walk
add_word(f, t, word) ==
    IF t.py = "None" THEN NewNode(word) ELSE Walk(f, t, word)

\* BKTree.__init__ (lines 25-35): the first word is the root, the others
\* are added in order
RECURSIVE Seeded(_, _, _, _)
Seeded(f, t, words, i) ==
    IF i > Len(words) THEN t
    ELSE Seeded(f, add_word(f, t, words[i]), words, i + 1)

Constructor(f, words) ==
    IF Len(words) = 0 THEN PyNone
    ELSE Seeded(f, NewNode(words[1]), words, 2)

(***************************************************************************)
(* BKTree.query (lines 59-82).                                             *)
(***************************************************************************)
\* (d1, w1) < (d2, w2) for two result tuples
PairLess(p, q) == p[1] < q[1] \/ (p[1] = q[1] /\ StrLess(p[2], q[2]))

\* sorted(results): by distance, then by word
RECURSIVE Sorted(_)
Sorted(results) ==
    IF Len(results) = 0 THEN <<>>
    ELSE LET rest == Sorted(Tail(results))
             x == Head(results)
             before == SelectSeq(rest, LAMBDA y : PairLess(y, x))
             after == SelectSeq(rest, LAMBDA y : ~PairLess(y, x))
         IN  before \o <<x>> \o after

RECURSIVE rec(_, _, _, _)
RECURSIVE RecChildren(_, _, _, _, _, _, _)

\* rec, were its range to end at distance + n - 1
rec_NarrowRange(f, word, n, parent) ==
    IF ~Unpacks(parent) THEN UnpackError(parent)
    ELSE LET p_word == parent.items[1].s
             children == parent.items[2]
             d == f[<<word, p_word>>]
             results == IF d <= n THEN <<<<d, p_word>>>> ELSE <<>>
         IN  RecChildren(f, word, n, children, d - n, d + n - 1, results)

\* lines 68-79
rec(f, word, n, parent) ==
    IF ~Unpacks(parent) THEN UnpackError(parent)
    ELSE LET p_word == parent.items[1].s
             children == parent.items[2]
             d == f[<<word, p_word>>]
             results == IF d <= n THEN <<<<d, p_word>>>> ELSE <<>>
         IN  RecChildren(f, word, n, children, d - n, d + n, results)

\* lines 75-78: for i in range(distance - n, distance + n + 1), from i on
RecChildren(f, word, n, children, i, hi, results) ==
    IF i > hi THEN PyList(results)
    ELSE LET child == DictGet(children, PyStr(Str(i)))
         IN  IF child.py = "None"
             THEN RecChildren(f, word, n, children, i + 1, hi, results)
             ELSE LET below == rec(f, word, n, child)
                  IN  IF below.py = "exception" THEN below
                      ELSE RecChildren(f, word, n, children, i + 1, hi,
                                       results \o below.items)

\* line 82
query(f, t, word, n) ==
    LET r == rec(f, word, n, t)
    IN  IF r.py = "exception" THEN r ELSE PyList(Sorted(r.items))

(***************************************************************************)
(* BKTree.find (lines 84-117).                                             *)
(***************************************************************************)
\* found.sort(key=itemgetter(0)): stable, by distance alone
RECURSIVE SortedByDistance(_)
SortedByDistance(found) ==
    IF Len(found) = 0 THEN <<>>
    ELSE LET rest == SortedByDistance(Tail(found))
             x == Head(found)
             before == SelectSeq(rest, LAMBDA y : y[1] < x[1])
             after == SelectSeq(rest, LAMBDA y : ~(y[1] < x[1]))
         IN  before \o <<x>> \o after

\* line 113: the children whose key lies in [lower, upper], in dict order
RECURSIVE InRange(_, _, _)
InRange(items, lower, upper) ==
    IF Len(items) = 0 THEN <<>>
    ELSE LET d == IntOfKey(Head(items)[1])
             tl == InRange(Tail(items), lower, upper)
         IN  IF lower <= d /\ d <= upper THEN <<Head(items)[2]>> \o tl ELSE tl

RECURSIVE FindLoop(_, _, _, _, _)

\* the loop of find, were it to record every candidate it visits
FindLoop_NoRadiusCheck(f, item, n, candidates, found) ==
    IF Len(candidates) = 0 THEN PyList(found)
    ELSE LET node == Head(candidates)
         IN  IF ~Unpacks(node) THEN UnpackError(node)
             ELSE LET candidate == node.items[1].s
                      children == node.items[2]
                      d == f[<<candidate, item>>]
                      more == IF Len(children.items) > 0
                              THEN InRange(children.items, d - n, d + n)
                              ELSE <<>>
                  IN  FindLoop(f, item, n, Tail(candidates) \o more,
                               Append(found, <<d, candidate>>))

\* lines 104-113: the loop over the queue of candidates
FindLoop(f, item, n, candidates, found) ==
    IF Len(candidates) = 0 THEN PyList(found)
    ELSE LET node == Head(candidates)
         IN  IF ~Unpacks(node) THEN UnpackError(node)
             ELSE LET candidate == node.items[1].s
                      children == node.items[2]
                      d == f[<<candidate, item>>]
                      found2 == IF d <= n THEN Append(found, <<d, candidate>>)
                                ELSE found
                      more == IF Len(children.items) > 0
                              THEN InRange(children.items, d - n, d + n)
                              ELSE <<>>
                  IN  FindLoop(f, item, n, Tail(candidates) \o more, found2)

\* lines 92-117
find(f, t, item, n) ==
    IF t.py = "None" THEN PyList(<<>>)
    ELSE LET r == FindLoop(f, item, n, <<t>>, <<>>)
         IN  IF r.py = "exception" THEN r ELSE PyList(SortedByDistance(r.items))

(***************************************************************************)
(* json.dumps and json.loads, on JSON documents: a tuple and a list both   *)
(* become an array and an array comes back as a list; the keys of an       *)
(* object are strings, an int key is written as its digits.                *)
(***************************************************************************)
JsNull == [js |-> "null"]
JsString(s) == [js |-> "string", s |-> s]
JsNumber(i) == [js |-> "number", i |-> i]
JsArray(items) == [js |-> "array", items |-> items]
JsObject(items) == [js |-> "object", items |-> items]

KeyText(key) == IF key.py = "int" THEN Str(key.i) ELSE key.s

RECURSIVE json_dumps(_)
json_dumps(v) ==
    CASE v.py = "None" -> JsNull
      [] v.py = "str" -> JsString(v.s)
      [] v.py = "int" -> JsNumber(v.i)
      [] v.py \in {"tuple", "list"} ->
            JsArray([k \in 1..Len(v.items) |-> json_dumps(v.items[k])])
      [] v.py = "dict" ->
            JsObject([k \in 1..Len(v.items) |->
                        <<KeyText(v.items[k][1]), json_dumps(v.items[k][2])>>])

RECURSIVE json_loads(_)

\* json.loads, were it to read the keys of an object as ints
json_loads_IntKeys(doc) ==
    CASE doc.js = "null" -> PyNone
      [] doc.js = "string" -> PyStr(doc.s)
      [] doc.js = "number" -> PyInt(doc.i)
      [] doc.js = "array" ->
            PyList([k \in 1..Len(doc.items) |-> json_loads(doc.items[k])])
      [] doc.js = "object" ->
            PyDict([k \in 1..Len(doc.items) |->
                        <<PyInt(IntOf(doc.items[k][1])), json_loads(doc.items[k][2])>>])

json_loads(doc) ==
    CASE doc.js = "null" -> PyNone
      [] doc.js = "string" -> PyStr(doc.s)
      [] doc.js = "number" -> PyInt(doc.i)
      [] doc.js = "array" ->
            PyList([k \in 1..Len(doc.items) |-> json_loads(doc.items[k])])
      [] doc.js = "object" ->
            PyDict([k \in 1..Len(doc.items) |->
                        <<PyStr(doc.items[k][1]), json_loads(doc.items[k][2])>>])

(***************************************************************************)
(* The file: missing, a text json.loads cannot parse, or a JSON document.  *)
(***************************************************************************)
NoFile == [kind |-> "missing"]
Garbled == [kind |-> "garbled"]
JsonText(doc) == [kind |-> "json", doc |-> doc]

\* a serialized tree: null, or [word, {numeral: serialized node, ...}]
RECURSIVE IsNodeDoc(_)
IsNodeDoc(doc) ==
    /\ doc.js = "array"
    /\ Len(doc.items) = 2
    /\ doc.items[1].js = "string"
    /\ doc.items[2].js = "object"
    /\ \A k \in 1..Len(doc.items[2].items) :
          /\ IsNumeral(doc.items[2].items[k][1])
          /\ IsNodeDoc(doc.items[2].items[k][2])

IsTreeDoc(doc) == doc.js = "null" \/ IsNodeDoc(doc)

WellFormedFile(f) == f.kind = "json" /\ IsTreeDoc(f.doc)

\* contents another program leaves in the file: none is a serialized tree
ForeignFiles ==
    {Garbled,
     JsonText(JsNumber(5)),
     JsonText(JsArray(<<JsString(<<97>>)>>))}

\* a tree value: None, or nodes (word, {key: node, ...}) all the way down
RECURSIVE IsNode(_)
IsNode(v) ==
    /\ Unpacks(v)
    /\ v.items[1].py = "str"
    /\ v.items[2].py = "dict"
    /\ \A k \in 1..Len(v.items[2].items) :
          /\ v.items[2].items[k][1].py = "str"
          /\ IsNumeral(v.items[2].items[k][1].s)
          /\ IsNode(v.items[2].items[k][2])

IsTree(v) == v.py = "None" \/ IsNode(v)

\* the nodes of a tree value, root first
RECURSIVE Nodes(_)
RECURSIVE NodesOf(_, _)
Nodes(v) ==
    IF ~Unpacks(v) THEN <<>>
    ELSE <<v>> \o NodesOf(v.items[2].items, 1)

NodesOf(items, k) ==
    IF k > Len(items) THEN <<>>
    ELSE Nodes(items[k][2]) \o NodesOf(items, k + 1)

NodeCount(v) == Len(Nodes(v))

\* the words held in the nodes of a tree
NodeWords(v) == {Nodes(v)[k].items[1].s : k \in 1..NodeCount(v)}

(***************************************************************************)
(* The calls on one BKTree object.                                         *)
(***************************************************************************)
\* distance before levenshtein is called, and once it has returned value
NotCalled == [called |-> FALSE]
Returned(value) == [called |-> TRUE, value |-> value]

SeqsUpTo(S, n) == UNION {[1..k -> S] : k \in 0..n}

\* BKTree(distance_func, words)
Init ==
    /\ distance_func \in DistanceFuncs
    /\ \E words \in SeqsUpTo(Words, MaxNodes) :
          tree = Constructor(distance_func, words)
    /\ file = NoFile
    /\ last = [op |-> "none"]
    /\ source = <<>>
    /\ target = <<>>
    /\ distance = NotCalled

\* add_word(word)
AddWord ==
    /\ NodeCount(tree) < MaxNodes
    /\ \E word \in Words :
          LET r == add_word(distance_func, tree, word)
          IN  /\ tree' = IF r.py = "exception" THEN tree ELSE r
              /\ last' = [op |-> "add_word", word |-> word,
                          ret |-> IF r.py = "exception" THEN r ELSE PyNone]
    /\ UNCHANGED <<distance_func, file, source, target, distance>>

\* query(word, n)
Query ==
    /\ \E word \in Words, n \in 0..MaxN :
          last' = [op |-> "query", word |-> word, n |-> n,
                   ret |-> query(distance_func, tree, word, n)]
    /\ UNCHANGED <<distance_func, tree, file, source, target, distance>>

\* find(item, n)
Find ==
    /\ \E item \in Words, n \in 0..MaxN :
          last' = [op |-> "find", word |-> item, n |-> n,
                   ret |-> find(distance_func, tree, item, n)]
    /\ UNCHANGED <<distance_func, tree, file, source, target, distance>>

\* save_to_file() (lines 119-129)
SaveToFile ==
    /\ file' = JsonText(json_dumps(tree))
    /\ last' = [op |-> "save_to_file", ret |-> PyNone]
    /\ UNCHANGED <<distance_func, tree, source, target, distance>>

\* load_from_file() (lines 131-141): open() raises on a missing file and
\* json.loads on a text it cannot parse, both before self.tree is assigned
LoadFromFile ==
    /\ tree' = IF file.kind = "json" THEN json_loads(file.doc) ELSE tree
    /\ last' = [op |-> "load_from_file",
                ret |-> CASE file.kind = "missing" -> Raised("FileNotFoundError")
                          [] file.kind = "garbled" -> Raised("JSONDecodeError")
                          [] file.kind = "json" -> PyNone]
    /\ UNCHANGED <<distance_func, file, source, target, distance>>

\* another program writes the file
WriteFile ==
    /\ \E content \in ForeignFiles : file' = content
    /\ UNCHANGED <<distance_func, tree, last, source, target, distance>>

\* insertions and queries
Next == AddWord \/ Query \/ Find

Spec == Init /\ [][Next]_vars

\* insertions and persistence
FileNext == AddWord \/ SaveToFile \/ LoadFromFile \/ WriteFile

SpecFile == Init /\ [][FileNext]_vars

(***************************************************************************)
(* Properties of the tree.                                                 *)
(***************************************************************************)
\* the pairs of a returned list, as a set
PairSet(ret) == {ret.items[k] : k \in 1..Len(ret.items)}

\* the distance of the last call's word to a stored word
LastDistance(s) == distance_func[<<last.word, s>>]

\* all orders of insertion of a set of words
InsertionOrders(S) ==
    {p \in [1..Cardinality(S) -> S] : \A i, j \in 1..Cardinality(S) : p[i] = p[j] => i = j}

\* every node of the tree holds a word of its own
DistinctWords(t) == Cardinality(NodeWords(t)) = NodeCount(t)

\* the number of nodes that hold word
Stored(t, word) ==
    Cardinality({k \in 1..NodeCount(t) : Nodes(t)[k].items[1].s = word})

\* the key add_word computes at the root for word is taken by a child
OccupiedAtRoot(t, word) ==
    /\ IsNode(t)
    /\ DictGet(t.items[2],
               PyStr(Str(distance_func[<<word, t.items[1].s>>]))).py # "None"

\* C1: with a metric as distance function, query(w, n) returns the pair of
\* every stored word s with distance(w, s) <= n: the pruning of the children
\* to the keys in [distance - n, distance + n] skips no match.
C1_Completeness ==
    (last.op = "query" /\ IsNode(tree) /\ IsMetric(distance_func)) =>
        /\ last.ret.py = "list"
        /\ \A s \in NodeWords(tree) :
              LastDistance(s) <= last.n => <<LastDistance(s), s>> \in PairSet(last.ret)

\* a query that returned a match below the root and left a node out
C1_Witness ==
    /\ last.op = "query"
    /\ IsNode(tree)
    /\ last.ret.py = "list"
    /\ \E k \in 1..Len(last.ret.items) : last.ret.items[k][2] # tree.items[1].s
    /\ Len(last.ret.items) < NodeCount(tree)

\* C2: query(w, n) and find(w, n) return the same set of pairs on every
\* tree, the empty tree included.
C2_QueryFindEquivalent ==
    /\ last.op = "query" =>
          /\ last.ret.py = "list"
          /\ find(distance_func, tree, last.word, last.n).py = "list"
          /\ PairSet(last.ret) = PairSet(find(distance_func, tree, last.word, last.n))
    /\ last.op = "find" =>
          /\ last.ret.py = "list"
          /\ query(distance_func, tree, last.word, last.n).py = "list"
          /\ PairSet(last.ret) = PairSet(query(distance_func, tree, last.word, last.n))

\* C6 as stated: on the trees of all insertion orders of one word set,
\* query(w, n) returns one and the same list and find(w, n) returns one and
\* the same list.
C6_SameListsInEveryOrder ==
    (last.op \in {"query", "find"} /\ IsTree(tree) /\ DistinctWords(tree)) =>
        \A p \in InsertionOrders(NodeWords(tree)) :
            LET other == Constructor(distance_func, p)
            IN  IF last.op = "query"
                THEN query(distance_func, other, last.word, last.n) = last.ret
                ELSE find(distance_func, other, last.word, last.n) = last.ret

\* C6 amended: on the trees of all insertion orders of one word set,
\* query(w, n) returns one and the same list, and find(w, n) returns lists
\* of one and the same set of pairs and of the same length (pairs of equal
\* distance may come in another order).
C6_SameResultsInEveryOrder ==
    (last.op \in {"query", "find"} /\ IsTree(tree) /\ DistinctWords(tree)) =>
        \A p \in InsertionOrders(NodeWords(tree)) :
            LET other == Constructor(distance_func, p)
            IN  IF last.op = "query"
                THEN query(distance_func, other, last.word, last.n) = last.ret
                ELSE LET r == find(distance_func, other, last.word, last.n)
                     IN  /\ r.py = "list"
                         /\ last.ret.py = "list"
                         /\ PairSet(r) = PairSet(last.ret)
                         /\ Len(r.items) = Len(last.ret.items)

\* a find on a tree of three words that returned two pairs of one distance
C6_Witness ==
    /\ last.op = "find"
    /\ IsNode(tree)
    /\ DistinctWords(tree)
    /\ NodeCount(tree) = 3
    /\ last.ret.py = "list"
    /\ \E i, j \in 1..Len(last.ret.items) :
          i # j /\ last.ret.items[i][1] = last.ret.items[j][1]

\* C8: with a metric as distance function, every pair (d, value) that
\* query(w, n) or find(w, n) returns has d <= n, d = distance(w, value), and
\* value is the word of a node of the tree.
C8_Soundness ==
    (last.op \in {"query", "find"} /\ last.ret.py = "list" /\ IsMetric(distance_func)) =>
        \A k \in 1..Len(last.ret.items) :
            LET d == last.ret.items[k][1]
                value == last.ret.items[k][2]
            IN  /\ d <= last.n
                /\ value \in NodeWords(tree)
                /\ d = LastDistance(value)

\* a find that returned two pairs or more, and not every word
C8_Witness ==
    /\ last.op = "find"
    /\ last.ret.py = "list"
    /\ Len(last.ret.items) >= 2
    /\ Len(last.ret.items) < NodeCount(tree)

\* C10 as stated: an add_word whose key at the root is taken by a child
\* drops the word: the tree stays as it was.
C10_DroppedOnOccupiedKey ==
    [][(last'.op = "add_word" /\ OccupiedAtRoot(tree, last'.word)) => tree' = tree]_vars

\* C10 amended: an add_word whose key at the root is taken by a child does
\* not drop the word: it goes down into that child and on, and adds the word
\* as one new node below the root's children; no stored word is lost and
\* the root keeps its children's keys.
C10_ChainedOnOccupiedKey ==
    [][(last'.op = "add_word" /\ OccupiedAtRoot(tree, last'.word)) =>
          /\ last'.ret.py = "None"
          /\ NodeCount(tree') = NodeCount(tree) + 1
          /\ \A w \in Words :
                Stored(tree', w) = Stored(tree, w) + (IF w = last'.word THEN 1 ELSE 0)
          /\ Len(tree'.items[2].items) = Len(tree.items[2].items)
          /\ \A k \in 1..Len(tree.items[2].items) :
                tree'.items[2].items[k][1] = tree.items[2].items[k][1]]_vars

\* an add_word has put its word below a child of the root
C10_Witness ==
    /\ last.op = "add_word"
    /\ last.ret.py = "None"
    /\ IsNode(tree)
    /\ \E k \in 1..Len(tree.items[2].items) :
          last.word \in NodeWords(tree.items[2].items[k][2])
                            \ {tree.items[2].items[k][2].items[1].s}

(***************************************************************************)
(* Properties of save_to_file and load_from_file.                          *)
(***************************************************************************)
\* the step is a load_from_file call
IsLoad == last'.op = "load_from_file" /\ file' = file /\ last' # last

\* C7: a tree loaded from the file a tree was saved to answers every query
\* and every find as the saved tree does; after one more insertion made on
\* both, the two trees are saved as the same document and answer the query
\* and the find of the inserted word alike.
C7_RoundTrip ==
    [][(IsLoad /\ IsTree(tree) /\ file = JsonText(json_dumps(tree))) =>
          /\ last'.ret.py = "None"
          /\ \A w \in Words, n \in 0..MaxN :
                /\ query(distance_func, tree', w, n) = query(distance_func, tree, w, n)
                /\ find(distance_func, tree', w, n) = find(distance_func, tree, w, n)
          /\ \A word \in Words :
                LET loaded == add_word(distance_func, tree', word)
                    saved == add_word(distance_func, tree, word)
                IN  /\ json_dumps(loaded) = json_dumps(saved)
                    /\ \A n \in 0..MaxN :
                          /\ query(distance_func, loaded, word, n)
                                = query(distance_func, saved, word, n)
                          /\ find(distance_func, loaded, word, n)
                                = find(distance_func, saved, word, n)]_vars

\* a tree of lists, loaded from the file of a tree with children
C7_Witness ==
    /\ last.op = "load_from_file"
    /\ last.ret.py = "None"
    /\ IsNode(tree)
    /\ tree.py = "list"
    /\ NodeCount(tree) >= 2
    /\ file = JsonText(json_dumps(tree))

\* C9: load_from_file on a file that holds no serialized tree raises, and
\* leaves self.tree as it was.
C9_LoadRejectsInvalid ==
    [][(IsLoad /\ file.kind # "missing" /\ ~WellFormedFile(file)) =>
          (last'.ret.py = "exception" /\ tree' = tree)]_vars

(***************************************************************************)
(* Calls of levenshtein.                                                   *)
(***************************************************************************)
LevInit ==
    /\ source \in LevWords
    /\ target = <<>>
    /\ distance = NotCalled
    /\ distance_func = <<>>
    /\ tree = PyNone
    /\ file = NoFile
    /\ last = [op |-> "none"]

\* one call levenshtein(source, t)
Levenshtein ==
    /\ ~distance.called
    /\ \E t \in LevWords :
        /\ target' = t
        /\ distance' = Returned(levenshtein(source, t))
    /\ UNCHANGED <<distance_func, tree, file, last, source>>

LevNext == Levenshtein

SpecLev == LevInit /\ [][LevNext]_vars

\* C3: the value levenshtein returns is the edit distance of its arguments.
C3_LevenshteinIsEditDistance ==
    distance.called => distance.value = EditDistance(source, target)

\* C4: levenshtein gives the same value for both orders of its arguments.
C4_LevenshteinSymmetric ==
    distance.called => distance.value = levenshtein(target, source)

\* C5: levenshtein(a, c) <= levenshtein(a, b) + levenshtein(b, c).
C5_LevenshteinTriangle ==
    distance.called =>
        \A b \in MidWords :
            distance.value <= levenshtein(source, b) + levenshtein(b, target)

====
